---- MODULE Spec2Model ----
(***************************************************************************)
(* Anime_Ranker: the Elo vote handler, the background mean-reversion       *)
(* normalizer, the management add/delete handlers, matchmaking and the     *)
(* rank calculator, over one SQLite store of Anime rows.                   *)
(*                                                                         *)
(* Arithmetic.  The program computes in binary floating point.  The model  *)
(* computes in fixed point: a real x is the integer round(x * Q).  Q is    *)
(* even, so that 0.5 is exact as it is in binary floating point, and       *)
(* rounding is to nearest and symmetric in sign, as IEEE rounding is.      *)
(* Rounding error below 1/Q is therefore not modelled.                     *)
(*                                                                         *)
(* Store.  animes is the committed content of table "animes".  A session   *)
(* reads committed rows; its UPDATE/DELETE/INSERT statements go to its own  *)
(* open transaction (txn) and reach animes at COMMIT.  SQLite admits one   *)
(* open write transaction at a time (writer); another writer waits.        *)
(*                                                                         *)
(* Requests.  Each request runs on its own session and yields at every     *)
(* await; an action is the code between two awaits that touch the table.   *)
(* The read-only rank queries of the vote handler (lines 136-137, 163-164) *)
(* change nothing and fall between steps that other requests can already   *)
(* interleave with, so they are not steps of the vote; SpecRank checks the *)
(* rank query on its own.  A vote is followed by its background            *)
(* normalization pass on the same request (BackgroundTasks).               *)
(*                                                                         *)
(* Four specifications share the variables: Spec (votes, normalization,    *)
(* add and delete), SpecFrame (votes and normalization over one row more), *)
(* SpecMatch (get_match_pair with add and delete going on beside it) and   *)
(* SpecRank (get_anime_rank_info over imported tables).                    *)
(*                                                                         *)
(* Ids.  Anime.id is INTEGER PRIMARY KEY without AUTOINCREMENT: an INSERT  *)
(* gets the largest id in the table plus one, so the id of a deleted last  *)
(* row is given out again.                                                 *)
(***************************************************************************)
EXTENDS Integers, Sequences, FiniteSets, TLC

\* ---------------------------------------------------------------- bounds
HalfQ == 500            \* fixed-point resolution is Q = 2 * HalfQ per unit
MaxId == 2              \* largest primary key the store hands out
MaxVotes == 2           \* POST /battle/vote requests accepted in a run
MaxManage == 2          \* POST /manage/add and /manage/delete requests in a run
MaxRankItems == 5       \* population size of the rank calculator's specification

Q == 2 * HalfQ

\* ------------------------------------------------------ program constants
ELO_K_MAX == 60
ELO_K_MIN == 24
ELO_DECAY_FACTOR == 25
MATCH_SCORE_RANGE == 300
BASELINE == 1200
THRESHOLD == 1
ELO_DIVISOR == 400

Categories == {"story", "visual", "ost", "voice", "char", "fun"}

\* ------------------------------------------------------------ arithmetic
Abs(x) == IF x >= 0 THEN x ELSE -x

\* a / b for b > 0, rounded to nearest, ties away from zero
RDiv(a, b) == IF a >= 0 THEN (a + (b \div 2)) \div b
                        ELSE -(((-a) + (b \div 2)) \div b)

RECURSIVE ExpSeries(_, _, _)
\* sum of the Taylor terms of e^x from term number n on; term is x^(n-1)/(n-1)!
ExpSeries(x, n, term) ==
    IF term = 0 THEN 0
    ELSE term + ExpSeries(x, n + 1, RDiv(term * x, n * Q))

\* math.exp(x), x and the result in units of 1/Q
Exp(x) == IF x >= 0 THEN ExpSeries(x, 1, Q)
                    ELSE RDiv(Q * Q, ExpSeries(-x, 1, Q))

LN10 == RDiv(230259 * Q, 100000)

\* 10.0 ** (d / den), d and the result in units of 1/Q
Pow10(d, den) == Exp(RDiv(d * LN10, den * Q))

get_dynamic_k_factor(matches_played) ==
    LET k_diff == ELO_K_MAX - ELO_K_MIN
        decay == Exp(RDiv(-(matches_played * Q), ELO_DECAY_FACTOR))
    IN  ELO_K_MIN * Q + k_diff * decay

calculate_expected_score(rating_a, rating_b) ==
    RDiv(Q * Q, Q + Pow10(rating_b - rating_a, ELO_DIVISOR))

\* calculate_elo_update with B scored by A's outcome instead of 1 - outcome
calculate_elo_update_same_outcome(rating_a, rating_b, actual_score, matches_a, matches_b) ==
    LET expected_a == RDiv(Q * Q, Q + Pow10(rating_b - rating_a, ELO_DIVISOR))
        expected_b == RDiv(Q * Q, Q + Pow10(rating_a - rating_b, ELO_DIVISOR))
        k_a == ELO_K_MIN * Q
               + (ELO_K_MAX - ELO_K_MIN) * Exp(RDiv(-(matches_a * Q), ELO_DECAY_FACTOR))
        k_b == ELO_K_MIN * Q
               + (ELO_K_MAX - ELO_K_MIN) * Exp(RDiv(-(matches_b * Q), ELO_DECAY_FACTOR))
    IN  << rating_a + RDiv(k_a * (actual_score - expected_a), Q),
           rating_b + RDiv(k_b * (actual_score - expected_b), Q) >>

\* the pair <<new_rating_a, new_rating_b>>; actual_score in units of 1/Q
calculate_elo_update(rating_a, rating_b, actual_score, matches_a, matches_b) ==
    LET expected_a == calculate_expected_score(rating_a, rating_b)
        expected_b == calculate_expected_score(rating_b, rating_a)
        k_a == get_dynamic_k_factor(matches_a)
        k_b == get_dynamic_k_factor(matches_b)
    IN  << rating_a + RDiv(k_a * (actual_score - expected_a), Q),
           rating_b + RDiv(k_b * ((Q - actual_score) - expected_b), Q) >>


\* ----------------------------------------------------------------- state
Ids == 1..MaxId
Procs == {"h1", "h2"}           \* concurrently served requests
VoteCategories == {"story", "fun"}  \* form field category, as drawn here
\* form field winner (a free string): the three values the battle page posts,
\* and "3", which stands for every other string a client can post
Winners == {"1", "2", "draw", "3"}
ValidWinners == {"1", "2", "draw"}
BaseScores == {1200, 1230}          \* base_score values of the imported rows
None == "None"

VARIABLES
    animes,     \* committed table: id -> [rating: category -> score, matches_played]
    txn,        \* table as the open write transaction sees it (animes if none)
    writer,     \* the request holding the write transaction, or None
    pc,         \* per request: where its handler stands
    loc,        \* per request: the handler's local variables
    votes,      \* vote requests accepted so far
    manage,     \* add/delete requests served so far
    played,     \* history: id -> committed votes the row took part in
    dirty,      \* history: requests whose last read predates another commit
    raced,      \* history: those of dirty for which that commit was, once at
                \* least, a vote's, an add's or a delete's
    hist,       \* history: the last two events on the table (see Event)
    stale,      \* history: pairs of ids one of which a delete request removed
                \* from a table that held both
    mm,         \* the matchmaking request (get_match_pair)
    rankInfo    \* the last answer of get_anime_rank_info

vars == << animes, txn, writer, pc, loc, votes, manage, played, dirty, raced,
           hist, stale, mm, rankInfo >>

\* a new Anime row: every rating column at base, matches_played 0
Anime(id, base) == [id |-> id, rating |-> [c \in Categories |-> base * Q],
                    matches_played |-> 0]

\* Python's None where an Anime is expected
NoAnime == [id |-> 0, rating |-> [c \in Categories |-> 0], matches_played |-> 0]

\* a handler's locals; and as history: shift1 and shift2, the drift that
\* normalization passes have taken from the voted category since the vote read
\* a1 and a2
NoLoc == [a1id |-> 0, a2id |-> 0, category |-> None, winner |-> None,
          a1 |-> NoAnime, a2 |-> NoAnime, old_r1 |-> 0, old_r2 |-> 0,
          snap |-> << >>, shift1 |-> 0, shift2 |-> 0]

\* the matchmaking request: get_match_pair's arguments and locals, and as
\* history: branch (the query that chose anime2), size (rows in the table when
\* the request began), found (the focus id named a row then), clean (no commit
\* changed the table while the request ran), near (the rows other than anime1
\* that were within MATCH_SCORE_RANGE of it when the proximity query ran)
MmIdle == [pc |-> "idle", focus_id |-> -1, use_smart_match |-> FALSE,
           anime1 |-> NoAnime, anime2 |-> NoAnime, branch |-> None,
           size |-> 0, found |-> FALSE, clean |-> TRUE, near |-> {}]

\* no rank query answered yet
NoRank == [rank |-> 0, total |-> 0, top_percent |-> 0, category |-> None,
           score |-> 0]

\* rows 1..n as load_initial_data leaves them: all six columns at base_score
Population(n) == { [i \in 1..n |-> Anime(i, b[i])] : b \in [1..n -> BaseScores] }

Init ==
    /\ \E n \in 0..MaxId : animes \in Population(n)
    /\ txn = animes
    /\ writer = None
    /\ pc = [p \in Procs |-> "idle"]
    /\ loc = [p \in Procs |-> NoLoc]
    /\ votes = 0
    /\ manage = 0
    /\ played = [i \in DOMAIN animes |-> 0]
    /\ dirty = {}
    /\ raced = {}
    /\ hist = << >>
    /\ stale = {}
    /\ mm = MmIdle
    /\ rankInfo = NoRank

InFlight(p) == pc[p] # "idle"

\* db.get(Anime, id) on the committed table
Get(table, id) == IF id \in DOMAIN table THEN table[id] ELSE NoAnime

\* hist with event e appended, the last two kept.  Events: "vote", "add",
\* "delete" (a commit of that handler that changed the table); a normalization
\* pass that ended: "shift" (it committed UPDATEs) or "keep" (it did not), with
\* a leading "d" when a vote, an add or a delete committed between its SELECT
\* and its end, and a leading "o" when only other passes' shifts did
Event(e) == IF Len(hist) < 2 THEN Append(hist, e) ELSE << hist[2], e >>

\* a commit by p that changed the table: every other request in flight has read
\* a table that is no longer current
Dirtied(p) == dirty \cup { q \in Procs \ {p} : InFlight(q) }

\* ------------------------------------------------- POST /battle/vote
\* a1 = await db.get(Anime, anime1_id).  The ids posted are those of a pair the
\* battle page showed, which differ; either may have been deleted since.
VoteGetA1(p, anime1_id, anime2_id, category, winner) ==
    /\ pc[p] = "idle"
    /\ votes < MaxVotes
    /\ anime1_id # anime2_id
    /\ votes' = votes + 1
    /\ loc' = [loc EXCEPT ![p] = [NoLoc EXCEPT !.a1id = anime1_id,
                                               !.a2id = anime2_id,
                                               !.category = category,
                                               !.winner = winner,
                                               !.a1 = Get(animes, anime1_id)]]
    /\ pc' = [pc EXCEPT ![p] = "get_a2"]
    /\ dirty' = dirty \ {p}
    /\ raced' = raced \ {p}
    /\ UNCHANGED << animes, txn, writer, manage, played, hist, stale, mm, rankInfo >>

\* a2 = await db.get(Anime, anime2_id); 404 when either is missing
VoteGetA2(p) ==
    /\ pc[p] = "get_a2"
    /\ LET a2 == Get(animes, loc[p].a2id)
       IN  IF loc[p].a1 = NoAnime \/ a2 = NoAnime
           THEN /\ pc' = [pc EXCEPT ![p] = "idle"]
                /\ loc' = [loc EXCEPT ![p] = NoLoc]
                /\ dirty' = dirty \ {p}
                /\ raced' = raced \ {p}
           ELSE /\ pc' = [pc EXCEPT ![p] = "compute"]
                /\ loc' = [loc EXCEPT ![p].a2 = a2]
                /\ dirty' = dirty
                /\ raced' = raced
    /\ UNCHANGED << animes, txn, writer, votes, manage, played, hist, stale, mm, rankInfo >>

actual_score(winner) ==
    IF winner = "1" THEN Q
    ELSE IF winner = "2" THEN 0
    ELSE HalfQ

\* UpdateRow writing every column of the loaded object back
UpdateRowWhole(table, id, category, obj) ==
    [table EXCEPT ![id] = [id |-> id, rating |-> obj.rating,
                           matches_played |-> obj.matches_played]]

\* UPDATE animes SET rating_<category>=?, matches_played=? WHERE id = ?
\* inside the open transaction: the two changed columns of one row, absolute values
UpdateRow(table, id, category, obj) ==
    [table EXCEPT ![id] = [id |-> id,
                           rating |-> [@.rating EXCEPT ![category] = obj.rating[category]],
                           matches_played |-> obj.matches_played]]

\* VoteUpdateA1 on a connection in autocommit mode: the first UPDATE reaches the
\* committed table at once
VoteUpdateA1_autocommit(p) ==
    /\ pc[p] = "compute"
    /\ writer = None
    /\ LET l == loc[p]
           cat == l.category
           new == calculate_elo_update(l.a1.rating[cat], l.a2.rating[cat],
                                       IF l.winner = "1" THEN Q
                                       ELSE IF l.winner = "2" THEN 0 ELSE HalfQ,
                                       l.a1.matches_played, l.a2.matches_played)
           a1 == [id |-> l.a1id,
                  rating |-> [l.a1.rating EXCEPT ![cat] = new[1]],
                  matches_played |-> l.a1.matches_played + 1]
           a2 == [id |-> l.a2id,
                  rating |-> [l.a2.rating EXCEPT ![cat] = new[2]],
                  matches_played |-> l.a2.matches_played + 1]
       IN  /\ loc' = [loc EXCEPT ![p].a1 = a1, ![p].a2 = a2,
                                  ![p].old_r1 = l.a1.rating[cat],
                                  ![p].old_r2 = l.a2.rating[cat]]
           /\ IF l.a1id \in DOMAIN animes
              THEN /\ animes' = [animes EXCEPT ![l.a1id] = a1]
                   /\ txn' = animes'
                   /\ writer' = p
                   /\ pc' = [pc EXCEPT ![p] = "update_a2"]
              ELSE /\ animes' = animes
                   /\ txn' = animes
                   /\ writer' = None
                   /\ pc' = [pc EXCEPT ![p] = "failed"]
    /\ UNCHANGED << votes, manage, played, dirty, raced, hist, stale, mm, rankInfo >>

\* lines 131-154 and the first UPDATE of the flush in db.commit().  The flush
\* issues the two UPDATEs inside one transaction that nothing else can see into;
\* the order of the two is not observable.
VoteUpdateA1(p) ==
    /\ pc[p] = "compute"
    /\ writer = None
    /\ LET l == loc[p]
           cat == l.category
           new == calculate_elo_update(l.a1.rating[cat], l.a2.rating[cat],
                                       actual_score(l.winner),
                                       l.a1.matches_played, l.a2.matches_played)
           a1 == [id |-> l.a1id,
                  rating |-> [l.a1.rating EXCEPT ![cat] = new[1]],
                  matches_played |-> l.a1.matches_played + 1]
           a2 == [id |-> l.a2id,
                  rating |-> [l.a2.rating EXCEPT ![cat] = new[2]],
                  matches_played |-> l.a2.matches_played + 1]
       IN  /\ loc' = [loc EXCEPT ![p].a1 = a1, ![p].a2 = a2,
                                  ![p].old_r1 = l.a1.rating[cat],
                                  ![p].old_r2 = l.a2.rating[cat]]
           /\ IF l.a1id \in DOMAIN animes
              THEN /\ txn' = UpdateRow(animes, l.a1id, cat, a1)
                   /\ writer' = p
                   /\ pc' = [pc EXCEPT ![p] = "update_a2"]
              ELSE \* no row matched: StaleDataError, the session rolls back
                   /\ txn' = animes
                   /\ writer' = None
                   /\ pc' = [pc EXCEPT ![p] = "failed"]
    /\ UNCHANGED << animes, votes, manage, played, dirty, raced, hist, stale, mm, rankInfo >>

\* the second UPDATE of the flush
VoteUpdateA2(p) ==
    /\ pc[p] = "update_a2"
    /\ writer = p
    /\ IF loc[p].a2id \in DOMAIN txn
       THEN /\ txn' = UpdateRow(txn, loc[p].a2id, loc[p].category, loc[p].a2)
            /\ writer' = p
            /\ pc' = [pc EXCEPT ![p] = "commit"]
       ELSE /\ txn' = animes
            /\ writer' = None
            /\ pc' = [pc EXCEPT ![p] = "failed"]
    /\ UNCHANGED << animes, loc, votes, manage, played, dirty, raced, hist, stale, mm, rankInfo >>

\* COMMIT of db.commit(); then line 166 schedules normalize_scores_task
VoteCommit(p) ==
    /\ pc[p] = "commit"
    /\ writer = p
    /\ animes' = txn
    /\ txn' = txn
    /\ writer' = None
    /\ pc' = [pc EXCEPT ![p] = "normalize"]
    /\ played' = [played EXCEPT ![loc[p].a1id] = @ + 1, ![loc[p].a2id] = @ + 1]
    /\ dirty' = Dirtied(p)
    /\ raced' = raced \cup { q \in Procs \ {p} : InFlight(q) }
    /\ hist' = Event("vote")
    /\ UNCHANGED << loc, votes, manage, mm, rankInfo, stale >>

\* the request dies with its transaction open (exception, lost connection,
\* process exit): SQLite rolls the transaction back; nothing is scheduled
VoteFail(p) ==
    /\ pc[p] \in {"update_a2", "commit", "failed"}
    /\ writer' = IF writer = p THEN None ELSE writer
    /\ txn' = IF writer = p THEN animes ELSE txn
    /\ pc' = [pc EXCEPT ![p] = "idle"]
    /\ loc' = [loc EXCEPT ![p] = NoLoc]
    /\ dirty' = dirty \ {p}
    /\ raced' = raced \ {p}
    /\ UNCHANGED << animes, votes, manage, played, hist, stale, mm, rankInfo >>


\* ------------------------------------------ normalize_scores_task
RECURSIVE SumRating(_, _, _)
\* sum(getattr(a, attr_name) for a in animes)
SumRating(table, ids, cat) ==
    IF ids = {} THEN 0
    ELSE LET i == CHOOSE j \in ids : TRUE
         IN  table[i].rating[cat] + SumRating(table, ids \ {i}, cat)

\* Average with the total divided by one more than the number of rows
AverageOffByOne(table, cat) ==
    RDiv(SumRating(table, DOMAIN table, cat), Cardinality(DOMAIN table) + 1)

\* current_avg = total_val / len(animes)
Average(table, cat) ==
    RDiv(SumRating(table, DOMAIN table, cat), Cardinality(DOMAIN table))

\* diff = current_avg - 1200.0
Drift(table, cat) == Average(table, cat) - BASELINE * Q

\* Exceeds with the comparison made inclusive
ExceedsOrEqual(diff) == Abs(diff) >= THRESHOLD * Q

\* if abs(diff) > 1.0
Exceeds(diff) == Abs(diff) > THRESHOLD * Q

\* Shifted as a read-modify-write per row: each snapshot row written back at its
\* snapshot value less the drift
ShiftedAbsolute(table, snap) ==
    [i \in DOMAIN table |->
        [id |-> i,
         rating |-> [c \in Categories |->
                        IF Abs(Drift(snap, c)) > THRESHOLD * Q /\ i \in DOMAIN snap
                        THEN snap[i].rating[c] - Drift(snap, c)
                        ELSE table[i].rating[c]],
         matches_played |-> table[i].matches_played]]

\* Shifted with the sign of the correction reversed
ShiftedPlus(table, snap) ==
    [i \in DOMAIN table |->
        [id |-> i,
         rating |-> [c \in Categories |->
                        IF Abs(Drift(snap, c)) > THRESHOLD * Q
                        THEN table[i].rating[c] + Drift(snap, c)
                        ELSE table[i].rating[c]],
         matches_played |-> table[i].matches_played]]

\* the UPDATE statements of one pass: every row of the table as it is now, each
\* column whose drift in the snapshot exceeds the threshold moved by that drift
Shifted(table, snap) ==
    [i \in DOMAIN table |->
        [id |-> i,
         rating |-> [c \in Categories |->
                        IF Exceeds(Drift(snap, c))
                        THEN table[i].rating[c] - Drift(snap, c)
                        ELSE table[i].rating[c]],
         matches_played |-> table[i].matches_played]]

\* the drift a pass applies to category c, given the snapshot it read
Applied(snap, c) == IF Exceeds(Drift(snap, c)) THEN Drift(snap, c) ELSE 0

\* the locals l of a vote standing at position at, after a pass that read snap
\* has ended
Noted(l, at, snap) ==
    IF at = "get_a2"
    THEN [l EXCEPT !.shift1 = @ + Applied(snap, l.category)]
    ELSE IF at \in {"compute", "update_a2", "commit", "failed"}
    THEN [l EXCEPT !.shift1 = @ + Applied(snap, l.category),
                   !.shift2 = @ + Applied(snap, l.category)]
    ELSE l

\* is_modified after the loop
IsModified(snap) == \E c \in Categories : Exceeds(Drift(snap, c))

\* lines 150-158: open a session, SELECT every row, return if there is none
NormRead(p) ==
    /\ pc[p] = "normalize"
    /\ IF animes = << >>
       THEN /\ pc' = [pc EXCEPT ![p] = "idle"]
            /\ loc' = [loc EXCEPT ![p] = NoLoc]
       ELSE /\ pc' = [pc EXCEPT ![p] = "shift"]
            /\ loc' = [loc EXCEPT ![p] = [NoLoc EXCEPT !.snap = animes]]
    /\ dirty' = dirty \ {p}
    /\ raced' = raced \ {p}
    /\ UNCHANGED << animes, txn, writer, votes, manage, played, hist, stale, mm, rankInfo >>

\* lines 160-173: the loop's bulk UPDATEs and the commit.  The UPDATEs hold the
\* write transaction until the commit, so the table changes in one step.
NormApply(p) ==
    /\ pc[p] = "shift"
    /\ LET snap == loc[p].snap
       IN  IF IsModified(snap)
           THEN /\ writer = None
                /\ animes' = Shifted(animes, snap)
                /\ txn' = animes'
                /\ dirty' = Dirtied(p) \ {p}
                /\ hist' = Event(IF p \in raced THEN "dshift"
                                 ELSE IF p \in dirty THEN "oshift" ELSE "shift")
           ELSE /\ UNCHANGED << animes, txn >>
                /\ dirty' = dirty \ {p}
                /\ hist' = Event(IF p \in raced THEN "dkeep"
                                 ELSE IF p \in dirty THEN "okeep" ELSE "keep")
    /\ raced' = raced \ {p}
    /\ pc' = [pc EXCEPT ![p] = "idle"]
    /\ loc' = [r \in Procs |-> IF r = p THEN NoLoc
                                ELSE Noted(loc[r], pc[r], loc[p].snap)]
    /\ UNCHANGED << writer, votes, manage, played, mm, rankInfo, stale >>

\* ------------------------------------------------------ /manage
\* the rowid SQLite gives an INSERT: one more than the largest in the table
NextId(table) ==
    IF DOMAIN table = {} THEN 1
    ELSE (CHOOSE i \in DOMAIN table : \A j \in DOMAIN table : j <= i) + 1

\* the matchmaking request after a commit that changed the table
Touched == IF mm.pc \in {"smart", "fallback"} THEN [mm EXCEPT !.clean = FALSE] ELSE mm

\* POST /manage/add: Anime(name=...) with the column defaults, commit
add_anime ==
    /\ manage < MaxManage
    /\ writer = None
    /\ NextId(animes) <= MaxId
    /\ manage' = manage + 1
    /\ animes' = [i \in DOMAIN animes \cup {NextId(animes)} |->
                    IF i \in DOMAIN animes THEN animes[i] ELSE Anime(i, BASELINE)]
    /\ txn' = animes'
    /\ played' = [i \in DOMAIN animes' |-> IF i \in DOMAIN animes THEN played[i] ELSE 0]
    /\ dirty' = dirty \cup { q \in Procs : InFlight(q) }
    /\ raced' = raced \cup { q \in Procs : InFlight(q) }
    /\ hist' = Event("add")
    /\ mm' = Touched
    /\ UNCHANGED << writer, pc, loc, votes, stale, rankInfo >>

\* POST /manage/delete: DELETE FROM animes WHERE id = anime_id, commit
delete_anime(anime_id) ==
    /\ manage < MaxManage
    /\ writer = None
    /\ manage' = manage + 1
    /\ animes' = [i \in DOMAIN animes \ {anime_id} |-> animes[i]]
    /\ txn' = animes'
    /\ played' = [i \in DOMAIN animes' |-> played[i]]
    /\ dirty' = IF anime_id \in DOMAIN animes
                THEN dirty \cup { q \in Procs : InFlight(q) } ELSE dirty
    /\ raced' = IF anime_id \in DOMAIN animes
                THEN raced \cup { q \in Procs : InFlight(q) } ELSE raced
    /\ hist' = IF anime_id \in DOMAIN animes THEN Event("delete") ELSE hist
    /\ stale' = IF anime_id \in DOMAIN animes
                THEN stale \cup { {anime_id, j} : j \in DOMAIN animes' }
                ELSE stale
    /\ mm' = IF anime_id \in DOMAIN animes THEN Touched ELSE mm
    /\ UNCHANGED << writer, pc, loc, votes, rankInfo >>

\* ------------------------------------------------------ the application
Next ==
    \/ \E p \in Procs, a1 \in Ids, a2 \in Ids, c \in VoteCategories, w \in Winners :
          VoteGetA1(p, a1, a2, c, w)
    \/ \E p \in Procs : VoteGetA2(p)
    \/ \E p \in Procs : VoteUpdateA1(p)
    \/ \E p \in Procs : VoteUpdateA2(p)
    \/ \E p \in Procs : VoteCommit(p)
    \/ \E p \in Procs : VoteFail(p)
    \/ \E p \in Procs : NormRead(p)
    \/ \E p \in Procs : NormApply(p)
    \/ add_anime
    \/ \E i \in Ids : delete_anime(i)

Spec == Init /\ [][Next]_vars

\* ------------------------------ the application with a third row
\* Votes and normalization over a table of MaxId + 1 rows, so that a vote of two
\* rows leaves a row that takes no part in it; no add or delete request.
FrameIds == 1..(MaxId + 1)
FrameWinners == {"1", "draw"}
FrameScores == {1200, 1203}        \* base_score values of the imported rows

FramePopulation(n) == { [i \in 1..n |-> Anime(i, b[i])] : b \in [1..n -> FrameScores] }

InitFrame ==
    /\ animes \in FramePopulation(MaxId + 1)
    /\ txn = animes
    /\ writer = None
    /\ pc = [p \in Procs |-> "idle"]
    /\ loc = [p \in Procs |-> NoLoc]
    /\ votes = 0
    /\ manage = 0
    /\ played = [i \in DOMAIN animes |-> 0]
    /\ dirty = {}
    /\ raced = {}
    /\ hist = << >>
    /\ stale = {}
    /\ mm = MmIdle
    /\ rankInfo = NoRank

NextFrame ==
    \/ \E p \in Procs, a1 \in FrameIds, a2 \in FrameIds, c \in VoteCategories,
          w \in FrameWinners : VoteGetA1(p, a1, a2, c, w)
    \/ \E p \in Procs : VoteGetA2(p)
    \/ \E p \in Procs : VoteUpdateA1(p)
    \/ \E p \in Procs : VoteUpdateA2(p)
    \/ \E p \in Procs : VoteCommit(p)
    \/ \E p \in Procs : VoteFail(p)
    \/ \E p \in Procs : NormRead(p)
    \/ \E p \in Procs : NormApply(p)

SpecFrame == InitFrame /\ [][NextFrame]_vars

TypeOK ==
    /\ \A i \in DOMAIN animes : animes[i].id = i
    /\ writer \in Procs \cup {None}
    /\ (writer = None) => (txn = animes)
    /\ DOMAIN played = DOMAIN animes


\* ------------------------------------------------- get_match_pair
MaxFocus == MaxId + 2
FocusIds == 0..MaxFocus            \* path parameter anime_id of /battle/focus
NoFocus == -1                      \* focus_id = None: GET /battle
MatchScores == {900, 1200, 1501}   \* base_score values of the imported rows

MatchPopulation(n) == { [i \in 1..n |-> Anime(i, b[i])] : b \in [1..n -> MatchScores] }

\* Python's truth value of focus_id: None and 0 are false
Truthy(focus_id) == focus_id # NoFocus /\ focus_id # 0

\* the rows of the table, as a set
Rows(table) == { table[i] : i \in DOMAIN table }

\* SELECT ... ORDER BY random() LIMIT 1 over the rows that satisfy the WHERE
\* clause: the values result.scalar() can have, None when there is no such row
RandomRow(candidates) == IF candidates = {} THEN { NoAnime } ELSE candidates

\* row is another item than anime1 and its 'fun' rating is at most
\* MATCH_SCORE_RANGE away from anime1's
Near(anime1, row) ==
    /\ row.id # anime1.id
    /\ Abs(row.rating["fun"] - anime1.rating["fun"]) <= MATCH_SCORE_RANGE * Q

\* InWindow with the bounds of the window excluded
InWindowExclusive(anime1, row) ==
    /\ row.id # anime1.id
    /\ row.rating["fun"] > anime1.rating["fun"] - MATCH_SCORE_RANGE * Q
    /\ row.rating["fun"] < anime1.rating["fun"] + MATCH_SCORE_RANGE * Q

\* the proximity query's WHERE clause (lines 203-207)
InWindow(anime1, row) ==
    /\ row.id # anime1.id
    /\ row.rating["fun"] >= anime1.rating["fun"] - MATCH_SCORE_RANGE * Q
    /\ row.rating["fun"] <= anime1.rating["fun"] + MATCH_SCORE_RANGE * Q

\* the fallback query's WHERE clause (line 218)
NotSelf(anime1, row) == row.id # anime1.id

\* lines 180-193: anime1 by identity or at random, and the random draw
MatchStart(focus_id, use_smart_match) ==
    /\ mm.pc = "idle"
    /\ \E anime1 \in IF Truthy(focus_id) THEN { Get(animes, focus_id) }
                     ELSE RandomRow(Rows(animes)) :
          mm' = [MmIdle EXCEPT
                   !.pc = IF anime1 = NoAnime THEN "done"
                          ELSE IF use_smart_match THEN "smart" ELSE "fallback",
                   !.focus_id = focus_id,
                   !.use_smart_match = use_smart_match,
                   !.anime1 = anime1,
                   !.size = Cardinality(DOMAIN animes),
                   !.found = focus_id \in DOMAIN animes]
    /\ UNCHANGED << animes, txn, writer, pc, loc, votes, manage, played, dirty, raced,
                    hist, stale, rankInfo >>

\* lines 195-213: the proximity query
MatchSmart ==
    /\ mm.pc = "smart"
    /\ \E anime2 \in RandomRow({ row \in Rows(animes) : InWindow(mm.anime1, row) }) :
          mm' = [mm EXCEPT !.anime2 = anime2,
                           !.branch = IF anime2 = NoAnime THEN None ELSE "proximity",
                           !.pc = IF anime2 = NoAnime THEN "fallback" ELSE "done",
                           !.near = { row.id : row \in { r \in Rows(animes) :
                                                            Near(mm.anime1, r) } }]
    /\ UNCHANGED << animes, txn, writer, pc, loc, votes, manage, played, dirty, raced,
                    hist, stale, rankInfo >>

\* MatchFallback with the WHERE clause left out of the query
MatchFallbackAnyRow ==
    /\ mm.pc = "fallback"
    /\ \E anime2 \in RandomRow(Rows(animes)) :
          mm' = [mm EXCEPT !.anime2 = anime2,
                           !.branch = IF anime2 = NoAnime THEN None ELSE "fallback",
                           !.pc = "done"]
    /\ UNCHANGED << animes, txn, writer, pc, loc, votes, manage, played, dirty, raced,
                    hist, stale, rankInfo >>

\* MatchFallback as the else branch of "if use_smart_match"
MatchFallbackElseOnly ==
    /\ mm.pc = "fallback"
    /\ \E anime2 \in IF mm.use_smart_match THEN { NoAnime }
                     ELSE RandomRow({ row \in Rows(animes) : NotSelf(mm.anime1, row) }) :
          mm' = [mm EXCEPT !.anime2 = anime2,
                           !.branch = IF anime2 = NoAnime THEN None ELSE "fallback",
                           !.pc = "done"]
    /\ UNCHANGED << animes, txn, writer, pc, loc, votes, manage, played, dirty, raced,
                    hist, stale, rankInfo >>

\* lines 215-225: the uniform query when there is no anime2 yet, and the return
MatchFallback ==
    /\ mm.pc = "fallback"
    /\ \E anime2 \in RandomRow({ row \in Rows(animes) : NotSelf(mm.anime1, row) }) :
          mm' = [mm EXCEPT !.anime2 = anime2,
                           !.branch = IF anime2 = NoAnime THEN None ELSE "fallback",
                           !.pc = "done"]
    /\ UNCHANGED << animes, txn, writer, pc, loc, votes, manage, played, dirty, raced,
                    hist, stale, rankInfo >>

\* get_battle / focus_battle answer the request
MatchDone ==
    /\ mm.pc = "done"
    /\ mm' = MmIdle
    /\ UNCHANGED << animes, txn, writer, pc, loc, votes, manage, played, dirty, raced,
                    hist, stale, rankInfo >>

InitMatch ==
    /\ \E n \in 0..(MaxId + 1) : animes \in MatchPopulation(n)
    /\ txn = animes
    /\ writer = None
    /\ pc = [p \in Procs |-> "idle"]
    /\ loc = [p \in Procs |-> NoLoc]
    /\ votes = 0
    /\ manage = 0
    /\ played = [i \in DOMAIN animes |-> 0]
    /\ dirty = {}
    /\ raced = {}
    /\ hist = << >>
    /\ stale = {}
    /\ mm = MmIdle
    /\ rankInfo = NoRank

NextMatch ==
    \/ \E f \in FocusIds \cup {NoFocus}, u \in BOOLEAN : MatchStart(f, u)
    \/ MatchSmart
    \/ MatchFallback
    \/ MatchDone
    \/ add_anime
    \/ \E i \in Ids : delete_anime(i)

SpecMatch == InitMatch /\ [][NextMatch]_vars

\* ------------------------------------------------- get_anime_rank_info
RankScores == {1000, 1100, 1200, 1300, 1400}
RankCategories == {"story", "fun"}

\* get_anime_rank_info counting the rows at or above the score
get_anime_rank_info_at_or_above(table, category, score) ==
    LET total_count == IF Cardinality(DOMAIN table) = 0 THEN 1
                       ELSE Cardinality(DOMAIN table)
        higher_rank_count ==
            Cardinality({ i \in DOMAIN table : table[i].rating[category] >= score })
        current_rank == higher_rank_count + 1
    IN  [rank |-> current_rank, total |-> total_count,
         top_percent |-> RDiv(current_rank * 100 * 10, total_count),
         category |-> category, score |-> score]

\* rank, total and top_percent (in tenths of a percent: round(percentile, 1))
get_anime_rank_info(table, category, score) ==
    LET total_count == IF Cardinality(DOMAIN table) = 0 THEN 1
                       ELSE Cardinality(DOMAIN table)
        higher_rank_count ==
            Cardinality({ i \in DOMAIN table : table[i].rating[category] > score })
        current_rank == higher_rank_count + 1
    IN  [rank |-> current_rank, total |-> total_count,
         top_percent |-> RDiv(current_rank * 100 * 10, total_count),
         category |-> category, score |-> score]

\* a handler asks for the rank of a score
RankQuery(category, score) ==
    /\ rankInfo' = get_anime_rank_info(animes, category, score)
    /\ UNCHANGED << animes, txn, writer, pc, loc, votes, manage, played, dirty, raced,
                    hist, stale, mm >>

RankPopulation(n) == { [i \in 1..n |-> Anime(i, b[i])] : b \in [1..n -> RankScores] }

InitRank ==
    /\ \E n \in 0..MaxRankItems : animes \in RankPopulation(n)
    /\ txn = animes
    /\ writer = None
    /\ pc = [p \in Procs |-> "idle"]
    /\ loc = [p \in Procs |-> NoLoc]
    /\ votes = 0
    /\ manage = 0
    /\ played = [i \in DOMAIN animes |-> 0]
    /\ dirty = {}
    /\ raced = {}
    /\ hist = << >>
    /\ stale = {}
    /\ mm = MmIdle
    /\ rankInfo = NoRank

NextRank ==
    \E c \in RankCategories, b \in RankScores : RankQuery(c, b * Q)

SpecRank == InitRank /\ [][NextRank]_vars

\* =================================================================
\* Properties of the vote handler and the normalizer (Spec)
\* =================================================================

\* the step is request p leaving handler position a for position b
Step(p, a, b) == pc[p] = a /\ pc'[p] = b

\* row id of the table holds the two columns object obj was given by the vote
Carries(table, id, category, obj) ==
    /\ id \in DOMAIN table
    /\ table[id].rating[category] = obj.rating[category]
    /\ table[id].matches_played = obj.matches_played

InVoteWrite(p) == pc[p] \in {"compute", "update_a2", "commit"}

\* C1: a vote reaches the committed table as one atomic commit.  Every step a
\* vote takes between its computation and the end of its commit (an UPDATE, the
\* COMMIT, a failure and its rollback) either leaves the committed table as it
\* was or is the commit, after which both participants' rows hold the vote's new
\* rating in the voted category and the incremented match counter: no committed
\* table, seen by a reader or left by a failure, holds one side only.
C1_VoteCommitsBothOrNeither ==
    [][\A p \in Procs :
          (InVoteWrite(p) /\ pc'[p] # pc[p]) =>
             \/ animes' = animes
             \/ /\ Step(p, "commit", "normalize")
                /\ Carries(animes', loc[p].a1id, loc[p].category, loc[p].a1)
                /\ Carries(animes', loc[p].a2id, loc[p].category, loc[p].a2)]_vars

\* C1 witness: a vote has committed and the table holds both sides' new values,
\* which differ from the values the vote read
C1_Witness ==
    \E p \in Procs :
        /\ pc[p] = "normalize"
        /\ Carries(animes, loc[p].a1id, loc[p].category, loc[p].a1)
        /\ Carries(animes, loc[p].a2id, loc[p].category, loc[p].a2)
        /\ loc[p].a1.rating[loc[p].category] # loc[p].old_r1
        /\ loc[p].a2.rating[loc[p].category] # loc[p].old_r2

\* C2: the normalizer's correction is relative to the stored value.  When
\* another commit (a vote's) came between the pass's SELECT and its UPDATEs,
\* the pass leaves every row of the table at the value committed just before
\* the shift, less the drift: the value is not reset to the snapshot's.
C2_ShiftIsRelative ==
    [][\A p \in Procs :
          (Step(p, "shift", "idle") /\ p \in dirty) =>
             /\ DOMAIN animes' = DOMAIN animes
             /\ \A i \in DOMAIN animes : \A c \in Categories :
                   animes'[i].rating[c]
                      = animes[i].rating[c] - Applied(loc[p].snap, c)]_vars

\* C2 witness: a pass has just shifted the table, and the last commit before its
\* shift, which came after its SELECT, was a vote's; that vote was the second
\* for one of its rows, whose rating it moved on from the first vote's result
C2_Witness ==
    /\ hist = << "vote", "dshift" >>
    /\ \E i \in DOMAIN animes : animes[i].matches_played = 2

\* C6 (as claimed): every row's match counter equals the number of committed
\* votes the row took part in
C6_MatchesCountVotes ==
    \A i \in DOMAIN animes : animes[i].matches_played = played[i]

\* K(matches) * 0.5
HalfK(matches) == (get_dynamic_k_factor(matches) * HalfQ) \div Q

\* C7: a committed vote that A wins, between rows whose ratings in the voted
\* category were equal and whose match counters were equal when the vote read
\* them, leaves A's stored rating at the read value plus K(matches) * 0.5 and
\* B's at the read value minus the same amount (the sum is unchanged); from
\* 1200.0 and 0 matches the amount is K_MAX * 0.5 and both counters are 1.
C7_EqualRatingsZeroSum ==
    [][\A p \in Procs :
          (/\ Step(p, "commit", "normalize")
           /\ loc[p].winner = "1"
           /\ loc[p].old_r1 = loc[p].old_r2
           /\ loc[p].a1.matches_played = loc[p].a2.matches_played) =>
             LET cat == loc[p].category
                 m == loc[p].a1.matches_played - 1
                 new_a == animes'[loc[p].a1id].rating[cat]
                 new_b == animes'[loc[p].a2id].rating[cat]
             IN  /\ HalfK(m) > 0
                 /\ new_a = loc[p].old_r1 + HalfK(m)
                 /\ new_b = loc[p].old_r2 - HalfK(m)
                 /\ new_a + new_b = loc[p].old_r1 + loc[p].old_r2
                 /\ (m = 0 /\ loc[p].old_r1 = BASELINE * Q) =>
                       /\ 2 * (new_a - BASELINE * Q) = ELO_K_MAX * Q
                       /\ 2 * (BASELINE * Q - new_b) = ELO_K_MAX * Q
                       /\ animes'[loc[p].a1id].matches_played = 1
                       /\ animes'[loc[p].a2id].matches_played = 1]_vars

\* C7 witness: the scenario's vote has committed: both at 1200.0 with 0 matches,
\* A won, and the table holds 1230.0 and 1170.0 with one match each
C7_Witness ==
    \E p \in Procs :
        /\ pc[p] = "normalize"
        /\ loc[p].winner = "1"
        /\ loc[p].old_r1 = BASELINE * Q /\ loc[p].old_r2 = BASELINE * Q
        /\ loc[p].a1id \in DOMAIN animes /\ loc[p].a2id \in DOMAIN animes
        /\ animes[loc[p].a1id].rating[loc[p].category] = (BASELINE + ELO_K_MAX \div 2) * Q
        /\ animes[loc[p].a2id].rating[loc[p].category] = (BASELINE - ELO_K_MAX \div 2) * Q
        /\ animes[loc[p].a1id].matches_played = 1
        /\ animes[loc[p].a2id].matches_played = 1

\* C9: a pass with no commit between its SELECT and its UPDATEs takes, in every
\* category whose mean is off the baseline by more than the threshold, exactly
\* drift = mean - 1200.0 from every row; the category's mean is then the
\* baseline and the difference between any two rows is what it was.
C9_CleanPassRecentres ==
    [][\A p \in Procs :
          (Step(p, "shift", "idle") /\ p \notin dirty) =>
             /\ loc[p].snap = animes
             /\ DOMAIN animes' = DOMAIN animes
             /\ \A c \in Categories :
                   Exceeds(Drift(animes, c)) =>
                      /\ \A i \in DOMAIN animes :
                            animes'[i].rating[c] = animes[i].rating[c] - Drift(animes, c)
                      /\ Average(animes', c) = BASELINE * Q
                      /\ \A i, j \in DOMAIN animes :
                            animes'[i].rating[c] - animes'[j].rating[c]
                               = animes[i].rating[c] - animes[j].rating[c]]_vars

\* C9 witness: the scenario has run.  Rows imported at 1200.0 and 1230.0 (mean
\* 1215.0) stand, after a clean pass, at 1185.0 and 1215.0 in a category
C9_Witness ==
    /\ hist # << >>
    /\ hist[Len(hist)] = "shift"
    /\ \E c \in Categories : \E i, j \in DOMAIN animes :
          /\ animes[i].rating[c] = (BASELINE - 15) * Q
          /\ animes[j].rating[c] = (BASELINE + 15) * Q

CleanPass == {"shift", "keep"}

\* C10: of two normalization passes that follow one another with no other
\* commit from the first pass's SELECT to the second pass's end, the second
\* measures a drift within the threshold in every category and writes nothing.
C10_SecondPassKeeps ==
    (Len(hist) = 2 /\ hist[1] \in CleanPass /\ hist[2] \in CleanPass)
       => hist[2] = "keep"

\* C10 witness: a pass shifted the table and the pass after it wrote nothing
C10_Witness == hist = << "shift", "keep" >>

\* C11 (as claimed): a vote whose winner field is none of the three valid
\* outcomes is rejected before the rating computation: its request never stands
\* past the computation, with UPDATEs issued or its commit done
C11_InvalidOutcomeRejected ==
    \A p \in Procs :
        (loc[p].winner \in Winners \ ValidWinners) =>
            pc[p] \notin {"update_a2", "commit", "normalize"}

\* the vote of request p is on a pair that get_match_pair could return at some
\* time and one of whose rows a delete request removed after that time
OnStalePair(p) == { loc[p].a1id, loc[p].a2id } \in stale

InVote(p) == pc[p] \in {"get_a2", "compute", "update_a2", "commit", "failed"}

\* C12 (as claimed): once a participant of the voted pair has been deleted, be it
\* before the vote loads its rows or between the load and the commit, no step
\* of that vote changes the committed table: the vote does not commit, and the
\* surviving row keeps its rating and its match counter
C12_DeletedParticipantAborts ==
    [][\A p \in Procs :
          (InVote(p) /\ OnStalePair(p) /\ pc'[p] # pc[p]) => animes' = animes]_vars

\* C13: a vote's commit changes, in the committed table, only the voted
\* category's rating and the match counter of its two participants.  The set of
\* rows is the same; every row that takes no part is the same in every column;
\* the participants' ratings in the other five categories are the same; and a
\* row has no stored column but id, the six ratings and matches_played after
\* the commit, as before it (total_score is a property computed on reading).
C13_VoteChangesOnlyVoted ==
    [][\A p \in Procs :
          Step(p, "commit", "normalize") =>
             LET pair == { loc[p].a1id, loc[p].a2id }
             IN  /\ DOMAIN animes' = DOMAIN animes
                 /\ \A i \in DOMAIN animes \ pair : animes'[i] = animes[i]
                 /\ \A i \in pair :
                       /\ DOMAIN animes'[i] = DOMAIN animes[i]
                       /\ animes'[i].id = animes[i].id
                       /\ \A c \in Categories \ { loc[p].category } :
                             animes'[i].rating[c] = animes[i].rating[c]]_vars

\* C13 witness: a vote has just committed, after a normalization pass shifted
\* the table; its two rows hold the vote's new rating and counter, and a third
\* row, which has taken part in no vote, is in the table
C13_Witness ==
    \E p \in Procs :
        /\ pc[p] = "normalize"
        /\ Len(hist) = 2 /\ hist[1] \in {"shift", "dshift"} /\ hist[2] = "vote"
        /\ Carries(animes, loc[p].a1id, loc[p].category, loc[p].a1)
        /\ Carries(animes, loc[p].a2id, loc[p].category, loc[p].a2)
        /\ loc[p].a1.rating[loc[p].category] # loc[p].old_r1
        /\ \E i \in DOMAIN animes \ { loc[p].a1id, loc[p].a2id } :
              animes[i].matches_played = 0

\* the mean of category c that a pass measured is within the threshold of the
\* baseline: |mean - 1200.0| <= 1.0
Within(snap, c) == Abs(Average(snap, c) - BASELINE * Q) <= THRESHOLD * Q

\* C14: a normalization pass changes neither the set of rows nor any match
\* counter.  It leaves every rating of a category whose mean, as the pass read
\* it, is within the threshold of the baseline (1.0 off included) as it is, and
\* changes every rating of a category whose mean is further off, whatever the
\* other categories' means are.  When no category is further off than the
\* threshold the pass commits nothing and takes no write transaction.
C14_PassLeavesSettledAlone ==
    [][\A p \in Procs :
          Step(p, "shift", "idle") =>
             LET snap == loc[p].snap
             IN  /\ DOMAIN animes' = DOMAIN animes
                 /\ \A i \in DOMAIN animes :
                       /\ animes'[i].id = animes[i].id
                       /\ animes'[i].matches_played = animes[i].matches_played
                       /\ \A c \in Categories :
                             Within(snap, c)
                                <=> (animes'[i].rating[c] = animes[i].rating[c])
                 /\ (\A c \in Categories : Within(snap, c)) =>
                       /\ animes' = animes
                       /\ txn' = txn
                       /\ writer' = writer]_vars

\* C14 witness: a pass has just shifted the table; it brought the mean of one
\* category to the baseline and left another, whose mean is exactly 1.0 off, alone
C14_Witness ==
    /\ hist # << >>
    /\ hist[Len(hist)] \in {"shift", "dshift"}
    /\ \E c, d \in Categories :
          /\ Average(animes, c) = BASELINE * Q
          /\ Abs(Average(animes, d) - BASELINE * Q) = THRESHOLD * Q

\* C16 (as claimed): two passes overlapped, the first committing its shift
\* between the second's SELECT and the second's end, and no vote, add or delete
\* committed while either ran.  When the second has ended, the mean of every
\* category is within the threshold of the baseline: the drift was taken once.
C16_OverlapCorrectsOnce ==
    (Len(hist) = 2 /\ hist[1] = "shift" /\ hist[2] \in {"oshift", "okeep"}) =>
        \A c \in Categories : Within(animes, c)

\* C16, what the code does: after the two overlapping passes the mean of a
\* category is as far below the baseline as it was above it before them
C16_DriftTakenTwice ==
    /\ hist = << "shift", "oshift" >>
    /\ \E c \in Categories : Average(animes, c) = (BASELINE - 15) * Q

\* C17 (as claimed): a vote commits after normalization passes, and no other
\* request, committed between its read of a participant and its commit.  After
\* the commit each participant's rating in the voted category is the value the
\* vote read, less the drift the passes took, plus the vote's Elo change.
C17_ShiftSurvivesVote ==
    [][\A p \in Procs :
          (/\ Step(p, "commit", "normalize")
           /\ p \notin raced
           /\ (loc[p].shift1 # 0 \/ loc[p].shift2 # 0)) =>
             LET cat == loc[p].category
                 delta1 == loc[p].a1.rating[cat] - loc[p].old_r1
                 delta2 == loc[p].a2.rating[cat] - loc[p].old_r2
             IN  /\ animes'[loc[p].a1id].rating[cat]
                       = loc[p].old_r1 - loc[p].shift1 + delta1
                 /\ animes'[loc[p].a2id].rating[cat]
                       = loc[p].old_r2 - loc[p].shift2 + delta2]_vars

\* C17, what the code does: the vote has committed the value it read plus its
\* Elo change; the drift a pass took from the row in between is back in it
C17_ShiftUndone ==
    \E p \in Procs :
        /\ pc[p] = "normalize"
        /\ p \notin raced
        /\ loc[p].shift1 # 0 /\ loc[p].shift2 # 0
        /\ hist # << >> /\ hist[Len(hist)] = "vote"
        /\ Carries(animes, loc[p].a1id, loc[p].category, loc[p].a1)
        /\ Carries(animes, loc[p].a2id, loc[p].category, loc[p].a2)

\* C11, what the code does: the vote of an invalid winner has committed, and the
\* two rows hold exactly what a draw (0.5) gives from the ratings it read
C11_CoercedToDraw ==
    \E p \in Procs :
        /\ pc[p] = "normalize"
        /\ loc[p].winner \in Winners \ ValidWinners
        /\ loc[p].a1id \in DOMAIN animes /\ loc[p].a2id \in DOMAIN animes
        /\ LET cat == loc[p].category
               new == calculate_elo_update(loc[p].old_r1, loc[p].old_r2, HalfQ,
                                           loc[p].a1.matches_played - 1,
                                           loc[p].a2.matches_played - 1)
           IN  /\ animes[loc[p].a1id].rating[cat] = new[1]
               /\ animes[loc[p].a2id].rating[cat] = new[2]
               /\ new[1] # loc[p].old_r1


\* =================================================================
\* Properties of matchmaking (SpecMatch)
\* =================================================================

Returned == mm.pc = "done"
HasA == mm.anime1 # NoAnime
HasB == mm.anime2 # NoAnime

\* C3: get_match_pair never returns the same item twice.  Whenever it returns
\* two items, in focus mode or not, with anime2 chosen by the proximity query
\* or by the uniform query, their ids differ.
C3_PairIsDistinct ==
    (Returned /\ HasA /\ HasB) =>
        /\ mm.anime1.id # mm.anime2.id
        /\ mm.branch \in {"proximity", "fallback"}

\* C3 witness: a pair was returned whose anime2 came from the uniform query
\* after the proximity query was drawn and found its window empty
C3_Witness ==
    /\ Returned /\ HasA /\ HasB
    /\ mm.use_smart_match
    /\ mm.branch = "fallback"
    /\ mm.size >= 3

\* C4 (as claimed): in focus mode the returned anime1 is the row the focus id
\* named when it was looked up, and when the id named no row nothing is returned
C4_FocusIsRespected ==
    (Returned /\ mm.focus_id # NoFocus) =>
        IF mm.found THEN mm.anime1.id = mm.focus_id
        ELSE ~HasA /\ ~HasB

\* C5: without a focus id, and with no commit changing the table while the
\* selection runs, get_match_pair returns at least one None when the table
\* holds fewer than 2 rows and two items when it holds 2 rows or more, whether
\* the proximity query was drawn or not and whether it found a row or not.
C5_NotEnoughDataIffFewerThanTwo ==
    (Returned /\ mm.focus_id = NoFocus /\ mm.clean) =>
        /\ (mm.size < 2) => (~HasA \/ ~HasB)
        /\ (mm.size >= 2) => (HasA /\ HasB)

\* C5 witness: from a table of 2 rows or more that no commit changed, the
\* proximity query was drawn, found nothing, and two items were returned
C5_Witness ==
    /\ Returned /\ mm.focus_id = NoFocus /\ mm.clean
    /\ mm.size >= 2
    /\ mm.use_smart_match /\ mm.branch = "fallback"
    /\ HasA /\ HasB

\* C15: when the random draw selected proximity matching and, when the
\* proximity query ran, some row other than anime1 had its 'fun' rating within
\* MATCH_SCORE_RANGE of anime1's (bounds included), the anime2 returned is such
\* a row and the proximity query chose it.  An anime2 further away is returned
\* only when proximity matching was not drawn or no row was that near.
C15_ProximityIsHonoured ==
    (Returned /\ HasA /\ HasB) =>
        /\ (mm.use_smart_match /\ mm.near # {}) =>
               /\ Near(mm.anime1, mm.anime2)
               /\ mm.anime2.id \in mm.near
               /\ mm.branch = "proximity"
        /\ ~Near(mm.anime1, mm.anime2) =>
               (~mm.use_smart_match \/ mm.near = {})

\* C15 witness: proximity matching was drawn over a table of 3 rows; one row was
\* exactly MATCH_SCORE_RANGE away from anime1 and another further away, and the
\* row on the bound was returned
C15_Witness ==
    /\ Returned /\ HasA /\ HasB
    /\ mm.use_smart_match
    /\ mm.size >= 3
    /\ mm.near = { mm.anime2.id }
    /\ Abs(mm.anime2.rating["fun"] - mm.anime1.rating["fun"]) = MATCH_SCORE_RANGE * Q

\* =================================================================
\* Properties of the rank calculator (SpecRank)
\* =================================================================

Asked == rankInfo.category # None

Above(category, score) ==
    { i \in DOMAIN animes : animes[i].rating[category] > score }

\* C8 (as claimed): rank = 1 + rows strictly above the score, total = rows in
\* the table, percentile = rank / total * 100 exactly
C8_RankAsClaimed ==
    Asked =>
        /\ rankInfo.rank = 1 + Cardinality(Above(rankInfo.category, rankInfo.score))
        /\ rankInfo.total = Cardinality(DOMAIN animes)
        /\ rankInfo.top_percent * rankInfo.total = rankInfo.rank * 100 * 10

\* C8 (amended): rank = 1 + rows strictly above the score, so that a score no
\* row exceeds has rank 1; total = rows in the table, or 1 when the table is
\* empty; top_percent = rank / total * 100 rounded to one decimal place.
C8_RankOfScore ==
    Asked =>
        LET n == Cardinality(DOMAIN animes)
        IN  /\ rankInfo.rank = 1 + Cardinality(Above(rankInfo.category, rankInfo.score))
            /\ rankInfo.total = IF n = 0 THEN 1 ELSE n
            /\ 2 * Abs(rankInfo.top_percent * rankInfo.total - rankInfo.rank * 100 * 10)
                  <= rankInfo.total
            /\ (\A i \in DOMAIN animes :
                   animes[i].rating[rankInfo.category] <= rankInfo.score)
                  => rankInfo.rank = 1

\* C8 witness: the scenario.  Five rows at 1000, 1100, 1200, 1300 and 1400; the
\* score 1200 has rank 3 of 5 and top_percent 60.0
C8_Witness ==
    /\ Asked
    /\ Cardinality(DOMAIN animes) = 5
    /\ { animes[i].rating[rankInfo.category] : i \in DOMAIN animes }
          = { b * Q : b \in RankScores }
    /\ rankInfo.score = 1200 * Q
    /\ rankInfo.rank = 3 /\ rankInfo.total = 5 /\ rankInfo.top_percent = 600

====
